---- MODULE Spec2Model ----
(***************************************************************************)
(* Model of prime_circuit_breaker.py: the CircuitBreaker (allow, trip,     *)
(* reset, record_success, get_stats), the primality test is_prime and the  *)
(* PrimeHunter that drives the breaker through hunt_prime, and the loop    *)
(* of main() with its KeyboardInterrupt handler.                           *)
(*                                                                         *)
(* time.time() is an integer clock `now` that only moves forward (Tick).   *)
(* One method call reads the clock once: the microseconds between two      *)
(* time.time() calls inside one method are not modelled.                   *)
(***************************************************************************)
EXTENDS Integers, Sequences, FiniteSets, TLC

\* ---- bounds of the model ----
MaxThreshold == 2   \* failure_threshold ranges over 1..MaxThreshold
MaxCooldown == 2    \* cooldown_seconds ranges over 1..MaxCooldown
MaxTime == 5        \* the clock stops advancing at MaxTime
MaxOps == 4         \* cap on recorded outcomes (failures + successes) and on attempts
NumLo == 4          \* smallest value of min_num
NumHi == 6          \* largest value of max_num
MaxNeg == 5         \* is_prime is given the integers from -MaxNeg ...
MaxN == 50          \* ... to MaxN

VARIABLES
    now,              \* time.time()
    circuit_breaker,  \* PrimeHunter.circuit_breaker: the CircuitBreaker's fields
    min_num,          \* PrimeHunter.min_num
    max_num,          \* PrimeHunter.max_num
    primes_found,     \* PrimeHunter.primes_found
    attempts,         \* PrimeHunter.attempts
    lastOp,           \* the method the caller invoked last
    ret,              \* what it returned ("True", "False", "None", "dict") or raised ("ValueError")
    calls,            \* the state-changing breaker methods that ran during it
    notified,         \* the lines it printed
    was_open,         \* not allow() at the moment it was invoked
    arg,              \* the argument it was given, None when it takes none
    pc,               \* where main() stands, "idle" while main() is not running
    twin              \* a second CircuitBreaker built with the same arguments

vars == <<now, circuit_breaker, min_num, max_num, primes_found, attempts,
          lastOp, ret, calls, notified, was_open, arg, pc, twin>>

\* what the methods of the hunter and of its breaker leave alone
otherVars == <<arg, pc, twin>>

hunterVars == <<min_num, max_num, primes_found, attempts>>

\* Python's None for _last_failure_time and next_retry_time: no clock value is negative
None == -1

Max(a, b) == IF a >= b THEN a ELSE b

PyBool(b) == IF b THEN "True" ELSE "False"

\* ---- CircuitBreaker ----

\* CircuitBreaker.__init__
NewCircuitBreaker(failure_threshold, cooldown_seconds) ==
    [failure_threshold    |-> failure_threshold,
     cooldown_seconds     |-> cooldown_seconds,
     tripped_until        |-> 0,
     consecutive_failures |-> 0,
     total_failures       |-> 0,
     total_successes      |-> 0,
     last_failure_time    |-> None]

\* allow with the comparison weakened: open only strictly before tripped_until
allow_ge(b, t) == t >= b.tripped_until

\* CircuitBreaker.allow at clock value t
allow(b, t) == t > b.tripped_until

\* trip parameterised by the threshold test, the streak it counts from and the deadline it sets
trip_with(b, t, reached(_, _), streak, deadline, countTotal) ==
    LET b1 == [b EXCEPT !.consecutive_failures = streak + 1,
                        !.total_failures = IF countTotal THEN @ + 1 ELSE @,
                        !.last_failure_time = t]
    IN  IF reached(b1.consecutive_failures, b1.failure_threshold)
        THEN [cb    |-> [b1 EXCEPT !.tripped_until = deadline],
              calls |-> {"trip"},
              out   |-> {"tripped"}]
        ELSE [cb |-> b1, calls |-> {"trip"}, out |-> {}]

\* trip that opens only when the streak exceeds the threshold
trip_gt(b, t) ==
    trip_with(b, t, LAMBDA c, f : c > f, b.consecutive_failures,
              t + b.cooldown_seconds, TRUE)

\* trip that opens only when the streak equals the threshold
trip_eq(b, t) ==
    trip_with(b, t, LAMBDA c, f : c = f, b.consecutive_failures,
              t + b.cooldown_seconds, TRUE)

\* trip that starts a fresh streak once an earlier cooldown has elapsed
trip_fresh(b, t) ==
    trip_with(b, t, LAMBDA c, f : c >= f,
              IF b.tripped_until > 0 /\ t > b.tripped_until THEN 0 ELSE b.consecutive_failures,
              t + b.cooldown_seconds, TRUE)

\* trip that stores the cooldown's length instead of the time it ends
trip_duration(b, t) ==
    trip_with(b, t, LAMBDA c, f : c >= f, b.consecutive_failures,
              b.cooldown_seconds, TRUE)

\* trip that does not count the failure in total_failures
trip_nototal(b, t) ==
    trip_with(b, t, LAMBDA c, f : c >= f, b.consecutive_failures,
              t + b.cooldown_seconds, FALSE)

\* CircuitBreaker.trip at clock value t: the new fields, the methods run, the lines printed
trip(b, t) ==
    LET b1 == [b EXCEPT !.consecutive_failures = @ + 1,
                        !.total_failures = @ + 1,
                        !.last_failure_time = t]
    IN  IF b1.consecutive_failures >= b1.failure_threshold
        THEN [cb    |-> [b1 EXCEPT !.tripped_until = t + b1.cooldown_seconds],
              calls |-> {"trip"},
              out   |-> {"tripped"}]
        ELSE [cb |-> b1, calls |-> {"trip"}, out |-> {}]

\* reset that looks whether the circuit was open only after closing it
reset_late_check(b, t) ==
    LET closed == [b EXCEPT !.tripped_until = 0,
                            !.consecutive_failures = 0,
                            !.total_successes = @ + 1]
    IN  [cb    |-> closed,
         calls |-> {"reset"},
         out   |-> IF ~allow(closed, t) THEN {"reset"} ELSE {}]

\* reset that zeroes the streak but leaves tripped_until as it is
reset_keeps_open(b, t) ==
    [cb    |-> [b EXCEPT !.consecutive_failures = 0,
                         !.total_successes = @ + 1],
     calls |-> {"reset"},
     out   |-> IF ~allow(b, t) THEN {"reset"} ELSE {}]

\* reset that does not count the success
reset_no_count(b, t) ==
    [cb    |-> [b EXCEPT !.tripped_until = 0,
                         !.consecutive_failures = 0],
     calls |-> {"reset"},
     out   |-> IF ~allow(b, t) THEN {"reset"} ELSE {}]

\* CircuitBreaker.reset at clock value t
reset(b, t) ==
    LET open == ~allow(b, t)
    IN  [cb    |-> [b EXCEPT !.tripped_until = 0,
                             !.consecutive_failures = 0,
                             !.total_successes = @ + 1],
         calls |-> {"reset"},
         out   |-> IF open THEN {"reset"} ELSE {}]

\* record_success that never closes an open circuit
record_success_closed_only(b, t) ==
    [cb    |-> [b EXCEPT !.consecutive_failures = 0,
                         !.total_successes = @ + 1],
     calls |-> {"record_success"},
     out   |-> {}]

\* record_success that always takes the full reset path
record_success_always_reset(b, t) ==
    LET r == reset(b, t)
    IN  [cb |-> r.cb, calls |-> {"record_success"} \cup r.calls, out |-> r.out]

\* CircuitBreaker.record_success at clock value t
record_success(b, t) ==
    IF allow(b, t)
    THEN [cb    |-> [b EXCEPT !.consecutive_failures = 0,
                              !.total_successes = @ + 1],
          calls |-> {"record_success"},
          out   |-> {}]
    ELSE LET r == reset(b, t)
         IN  [cb |-> r.cb, calls |-> {"record_success"} \cup r.calls, out |-> r.out]

\* get_stats parameterised by the rate's denominator and by what it reports as retry time
get_stats_with(b, t, den, retry(_)) ==
    LET is_open == ~allow(b, t)
    IN  [is_open              |-> is_open,
         consecutive_failures |-> b.consecutive_failures,
         total_failures       |-> b.total_failures,
         total_successes      |-> b.total_successes,
         failure_threshold    |-> b.failure_threshold,
         cooldown_seconds     |-> b.cooldown_seconds,
         next_retry_time      |-> retry(is_open),
         seconds_until_retry  |-> IF is_open THEN Max(0, b.tripped_until - t) ELSE 0,
         success_rate         |-> [num |-> b.total_successes * 100, den |-> den]]

\* get_stats that avoids the division by zero by adding 1 to the denominator
get_stats_plus_one(b, t) ==
    get_stats_with(b, t, b.total_successes + b.total_failures + 1,
                   LAMBDA o : IF o THEN b.tripped_until ELSE None)

\* get_stats that reports tripped_until as retry time whenever one is stored
get_stats_stale_retry(b, t) ==
    get_stats_with(b, t, Max(1, b.total_successes + b.total_failures),
                   LAMBDA o : IF b.tripped_until > 0 THEN b.tripped_until ELSE None)

\* CircuitBreaker.get_stats at clock value t.  success_rate is the exact
\* quotient num / den (the float rounding of the division is not modelled).
get_stats(b, t) ==
    LET is_open == ~allow(b, t)
    IN  [is_open              |-> is_open,
         consecutive_failures |-> b.consecutive_failures,
         total_failures       |-> b.total_failures,
         total_successes      |-> b.total_successes,
         failure_threshold    |-> b.failure_threshold,
         cooldown_seconds     |-> b.cooldown_seconds,
         next_retry_time      |-> IF is_open THEN b.tripped_until ELSE None,
         seconds_until_retry  |-> IF is_open THEN Max(0, b.tripped_until - t) ELSE 0,
         success_rate         |-> [num |-> b.total_successes * 100,
                                   den |-> Max(1, b.total_successes + b.total_failures)]]

\* ---- prime number utilities ----

\* int(math.sqrt(n)) for n >= 0
isqrt(n) == CHOOSE r \in 0..n : r * r <= n /\ (r + 1) * (r + 1) > n

\* range(first, stop, 2)
range2(first, stop) == {i \in first..(stop - 1) : (i - first) % 2 = 0}

\* is_prime whose range stops one short of the square root
is_prime_short_range(n) ==
    IF n < 2 THEN FALSE
    ELSE IF n = 2 THEN TRUE
    ELSE IF n % 2 = 0 THEN FALSE
    ELSE ~ \E i \in range2(3, isqrt(n)) : n % i = 0

\* is_prime that tries the odd divisors up to n itself
is_prime_upto_n(n) ==
    IF n < 2 THEN FALSE
    ELSE IF n = 2 THEN TRUE
    ELSE IF n % 2 = 0 THEN FALSE
    ELSE ~ \E i \in range2(3, n + 1) : n % i = 0

is_prime(n) ==
    IF n < 2 THEN FALSE
    ELSE IF n = 2 THEN TRUE
    ELSE IF n % 2 = 0 THEN FALSE
    ELSE ~ \E i \in range2(3, isqrt(n) + 1) : n % i = 0

\* ---- state ----

\* PrimeHunter.__init__ with the given arguments, before any call
Constructed(failure_threshold, cooldown_seconds, lo, hi) ==
    /\ now = 1
    /\ circuit_breaker = NewCircuitBreaker(failure_threshold, cooldown_seconds)
    /\ twin = circuit_breaker
    /\ min_num = lo
    /\ max_num = hi
    /\ primes_found = <<>>
    /\ attempts = 0
    /\ lastOp = "__init__"
    /\ ret = "None"
    /\ calls = {}
    /\ notified = {}
    /\ was_open = FALSE
    /\ arg = None

\* a hunter with a positive threshold, a positive cooldown and a non-empty range
Init ==
    /\ \E ft \in 1..MaxThreshold, cs \in 1..MaxCooldown :
       \E lo \in NumLo..NumHi : \E hi \in lo..NumHi :
           Constructed(ft, cs, lo, hi)
    /\ pc = "idle"

\* the counters still have room under the bound
Room == circuit_breaker.total_failures + circuit_breaker.total_successes < MaxOps

\* what every call records about itself
Called(op) ==
    /\ lastOp' = op
    /\ was_open' = ~allow(circuit_breaker, now)

\* time passes between two calls
Tick ==
    /\ now < MaxTime
    /\ now' = now + 1
    /\ Called("tick")
    /\ ret' = "None" /\ calls' = {} /\ notified' = {}
    /\ UNCHANGED <<circuit_breaker, hunterVars, otherVars>>

Allow ==
    /\ Called("allow")
    /\ ret' = PyBool(allow(circuit_breaker, now))
    /\ calls' = {} /\ notified' = {}
    /\ UNCHANGED <<now, circuit_breaker, hunterVars, otherVars>>

Trip ==
    /\ Room
    /\ Called("trip")
    /\ LET r == trip(circuit_breaker, now)
       IN  circuit_breaker' = r.cb /\ calls' = r.calls /\ notified' = r.out
    /\ ret' = "None"
    /\ UNCHANGED <<now, hunterVars, otherVars>>

Reset ==
    /\ Room
    /\ Called("reset")
    /\ LET r == reset(circuit_breaker, now)
       IN  circuit_breaker' = r.cb /\ calls' = r.calls /\ notified' = r.out
    /\ ret' = "None"
    /\ UNCHANGED <<now, hunterVars, otherVars>>

RecordSuccess ==
    /\ Room
    /\ Called("record_success")
    /\ LET r == record_success(circuit_breaker, now)
       IN  circuit_breaker' = r.cb /\ calls' = r.calls /\ notified' = r.out
    /\ ret' = "None"
    /\ UNCHANGED <<now, hunterVars, otherVars>>

GetStats ==
    /\ Called("get_stats")
    /\ ret' = "dict"
    /\ calls' = {} /\ notified' = {}
    /\ UNCHANGED <<now, circuit_breaker, hunterVars, otherVars>>

\* hunt_prime when the breaker refuses: nothing is counted
HuntBlocked ==
    /\ ret' = "False"
    /\ calls' = {}
    /\ notified' = {"blocked"}
    /\ UNCHANGED <<circuit_breaker, primes_found, attempts>>

\* hunt_prime when the breaker allows; generate_random_number draws number
\* from min_num..max_num, and random.randint raises ValueError on an empty
\* range, after the attempt was counted
HuntAttempt ==
    /\ Room
    /\ attempts < MaxOps
    /\ attempts' = attempts + 1
    /\ IF min_num > max_num
       THEN /\ ret' = "ValueError"
            /\ calls' = {}
            /\ notified' = {}
            /\ UNCHANGED <<circuit_breaker, primes_found>>
       ELSE
       \E number \in min_num..max_num :
           IF is_prime(number)
           THEN LET r == record_success(circuit_breaker, now)
                IN  /\ primes_found' = Append(primes_found, number)
                    /\ circuit_breaker' = r.cb
                    /\ calls' = r.calls
                    /\ notified' = {"attempt", "prime"} \cup r.out
                    /\ ret' = "True"
           ELSE LET r == trip(circuit_breaker, now)
                IN  /\ primes_found' = primes_found
                    /\ circuit_breaker' = r.cb
                    /\ calls' = r.calls
                    /\ notified' = {"attempt", "not prime"} \cup r.out
                    /\ ret' = "False"

\* hunt_prime that counts the attempt before asking the breaker
HuntPrime_counts_blocked ==
    /\ Called("hunt_prime")
    /\ IF ~allow(circuit_breaker, now)
       THEN /\ attempts < MaxOps
            /\ attempts' = attempts + 1
            /\ ret' = "False"
            /\ calls' = {}
            /\ notified' = {"blocked"}
            /\ UNCHANGED <<circuit_breaker, primes_found>>
       ELSE HuntAttempt
    /\ UNCHANGED <<now, min_num, max_num, otherVars>>

\* hunt_prime that never asks the breaker
HuntPrime_unguarded ==
    /\ Called("hunt_prime")
    /\ HuntAttempt
    /\ UNCHANGED <<now, min_num, max_num, otherVars>>

\* PrimeHunter.hunt_prime
HuntPrime ==
    /\ Called("hunt_prime")
    /\ IF ~allow(circuit_breaker, now) THEN HuntBlocked ELSE HuntAttempt
    /\ UNCHANGED <<now, min_num, max_num, otherVars>>

\* any caller: the breaker's methods, the hunter's, and the clock
Next ==
    \/ Tick
    \/ Allow
    \/ Trip
    \/ Reset
    \/ RecordSuccess
    \/ GetStats
    \/ HuntPrime

Spec == Init /\ [][Next]_vars

\* the breaker is touched only through the hunter (and read by the driver loop)
NextHunter ==
    \/ Tick
    \/ Allow
    \/ GetStats
    \/ HuntPrime

SpecHunter == Init /\ [][NextHunter]_vars

\* __init__ stores whatever it is given: a threshold or a cooldown of 0 and
\* a range with min_num > max_num are constructed like any other
InitAny ==
    /\ \E ft \in 0..MaxThreshold, cs \in 0..MaxCooldown :
       \E lo \in NumLo..NumHi : \E hi \in NumLo..NumHi :
           Constructed(ft, cs, lo, hi)
    /\ pc = "idle"

SpecConfig == InitAny /\ [][Next]_vars

\* a caller asks is_prime about some integer n
IsPrime ==
    /\ \E n \in (0 - MaxNeg)..MaxN :
           /\ arg' = n
           /\ ret' = PyBool(is_prime(n))
    /\ Called("is_prime")
    /\ calls' = {} /\ notified' = {}
    /\ UNCHANGED <<now, circuit_breaker, hunterVars, pc, twin>>

SpecPrime == Init /\ [][IsPrime]_vars

\* the breaker is driven only through the hunter, whatever the hunter was built with
SpecHunterAny == InitAny /\ [][NextHunter]_vars

\* ---- two breakers side by side ----

\* both breakers record a failure
TwinTrip ==
    /\ Room
    /\ Called("trip")
    /\ LET r == trip(circuit_breaker, now)
       IN  circuit_breaker' = r.cb /\ calls' = r.calls /\ notified' = r.out
    /\ twin' = trip(twin, now).cb
    /\ ret' = "None"
    /\ UNCHANGED <<now, hunterVars, arg, pc>>

\* a success: record_success() on circuit_breaker where twin gets reset()
TwinSuccess ==
    /\ Room
    /\ Called("record_success")
    /\ LET r == record_success(circuit_breaker, now)
       IN  circuit_breaker' = r.cb /\ calls' = r.calls /\ notified' = r.out
    /\ twin' = reset(twin, now).cb
    /\ ret' = "None"
    /\ UNCHANGED <<now, hunterVars, arg, pc>>

\* both breakers are reset
TwinReset ==
    /\ Room
    /\ Called("reset")
    /\ LET r == reset(circuit_breaker, now)
       IN  circuit_breaker' = r.cb /\ calls' = r.calls /\ notified' = r.out
    /\ twin' = reset(twin, now).cb
    /\ ret' = "None"
    /\ UNCHANGED <<now, hunterVars, arg, pc>>

\* both breakers record a success through record_success()
TwinRecord ==
    /\ Room
    /\ Called("record_success")
    /\ LET r == record_success(circuit_breaker, now)
       IN  circuit_breaker' = r.cb /\ calls' = r.calls /\ notified' = r.out
    /\ twin' = record_success(twin, now).cb
    /\ ret' = "None"
    /\ UNCHANGED <<now, hunterVars, arg, pc>>

NextTwin ==
    \/ Tick
    \/ TwinTrip
    \/ TwinSuccess
    \/ TwinReset
    \/ TwinRecord

SpecTwin == Init /\ [][NextTwin]_vars

\* ---- main() ----

\* the places of main() inside its try block
LoopPcs == {"loop", "wait", "hunt", "status", "pause", "sleep"}

\* main() has built its hunter and enters the loop
InitMain ==
    /\ \E ft \in 1..MaxThreshold, cs \in 1..MaxCooldown :
       \E lo \in NumLo..NumHi : \E hi \in lo..NumHi :
           Constructed(ft, cs, lo, hi)
    /\ pc = "loop"

\* top of the loop: wait out the cooldown when the breaker is open
MainCheck ==
    /\ pc = "loop"
    /\ Called("main")
    /\ LET wait_time == get_stats(circuit_breaker, now).seconds_until_retry
       IN  IF ~allow(circuit_breaker, now) /\ wait_time > 0
           THEN pc' = "wait" /\ notified' = {"waiting"}
           ELSE pc' = "hunt" /\ notified' = {}
    /\ ret' = "None" /\ calls' = {}
    /\ UNCHANGED <<now, circuit_breaker, hunterVars, arg, twin>>

\* time.sleep(wait_time + 0.1): the clock runs until it is past tripped_until
MainWait ==
    /\ pc = "wait"
    /\ Called("main")
    /\ IF now <= circuit_breaker.tripped_until
       THEN /\ now < MaxTime
            /\ now' = now + 1
            /\ pc' = "wait"
            /\ notified' = {}
       ELSE /\ now' = now
            /\ pc' = "hunt"
            /\ notified' = {"wait complete"}
    /\ ret' = "None" /\ calls' = {}
    /\ UNCHANGED <<circuit_breaker, hunterVars, arg, twin>>

\* hunter.hunt_prime(); a ValueError leaves the try block through finally
MainHunt ==
    /\ pc = "hunt"
    /\ Called("hunt_prime")
    /\ IF ~allow(circuit_breaker, now) THEN HuntBlocked ELSE HuntAttempt
    /\ pc' = IF ret' = "ValueError" THEN "finally" ELSE "status"
    /\ UNCHANGED <<now, min_num, max_num, arg, twin>>

\* the status lines every 10 attempts
MainStatus ==
    /\ pc = "status"
    /\ Called("main")
    /\ notified' = IF attempts % 10 = 0 THEN {"status"} ELSE {}
    /\ pc' = "pause"
    /\ ret' = "None" /\ calls' = {}
    /\ UNCHANGED <<now, circuit_breaker, hunterVars, arg, twin>>

\* sleep for a second only when the breaker is closed
MainPause ==
    /\ pc = "pause"
    /\ Called("main")
    /\ pc' = IF allow(circuit_breaker, now) THEN "sleep" ELSE "loop"
    /\ ret' = "None" /\ calls' = {} /\ notified' = {}
    /\ UNCHANGED <<now, circuit_breaker, hunterVars, arg, twin>>

\* time.sleep(1)
MainSleep ==
    /\ pc = "sleep"
    /\ now < MaxTime
    /\ Called("main")
    /\ now' = now + 1
    /\ pc' = "loop"
    /\ ret' = "None" /\ calls' = {} /\ notified' = {}
    /\ UNCHANGED <<circuit_breaker, hunterVars, arg, twin>>

\* KeyboardInterrupt raised anywhere inside the try block
Interrupt ==
    /\ pc \in LoopPcs
    /\ Called("KeyboardInterrupt")
    /\ pc' = "except"
    /\ ret' = "None" /\ calls' = {} /\ notified' = {}
    /\ UNCHANGED <<now, circuit_breaker, hunterVars, arg, twin>>

\* an except clause that ends the process instead of falling through to finally
MainExcept_exits ==
    /\ pc = "except"
    /\ Called("main")
    /\ pc' = "exited"
    /\ notified' = {"stopping"}
    /\ ret' = "None" /\ calls' = {}
    /\ UNCHANGED <<now, circuit_breaker, hunterVars, arg, twin>>

\* except KeyboardInterrupt
MainExcept ==
    /\ pc = "except"
    /\ Called("main")
    /\ pc' = "finally"
    /\ notified' = {"stopping"}
    /\ ret' = "None" /\ calls' = {}
    /\ UNCHANGED <<now, circuit_breaker, hunterVars, arg, twin>>

\* finally: the runtime line and hunter.print_summary()
MainFinally ==
    /\ pc = "finally"
    /\ Called("print_summary")
    /\ pc' = "done"
    /\ notified' = {"runtime", "summary"}
    /\ ret' = "None" /\ calls' = {}
    /\ UNCHANGED <<now, circuit_breaker, hunterVars, arg, twin>>

NextMain ==
    \/ MainCheck
    \/ MainWait
    \/ MainHunt
    \/ MainStatus
    \/ MainPause
    \/ MainSleep
    \/ Interrupt
    \/ MainExcept
    \/ MainFinally

\* one thread runs main(): a raised exception is handled and finally runs
SpecMain ==
    /\ InitMain
    /\ [][NextMain]_vars
    /\ WF_vars(MainExcept)
    /\ WF_vars(MainFinally)

TypeOK ==
    /\ now \in 1..MaxTime
    /\ circuit_breaker.failure_threshold \in 1..MaxThreshold
    /\ circuit_breaker.cooldown_seconds \in 1..MaxCooldown
    /\ circuit_breaker.tripped_until \in 0..(MaxTime + MaxCooldown)
    /\ circuit_breaker.consecutive_failures \in 0..MaxOps
    /\ circuit_breaker.total_failures \in 0..MaxOps
    /\ circuit_breaker.total_successes \in 0..MaxOps
    /\ circuit_breaker.last_failure_time \in {None} \cup 1..MaxTime
    /\ min_num \in NumLo..NumHi /\ max_num \in min_num..NumHi
    /\ attempts \in 0..MaxOps
    /\ Len(primes_found) <= attempts
    /\ ret \in {"True", "False", "None", "dict", "ValueError"}
    /\ was_open \in BOOLEAN
    /\ arg \in {None} \cup (0 - MaxNeg)..MaxN
    /\ pc \in {"idle", "except", "finally", "done"} \cup LoopPcs
    /\ twin.tripped_until \in 0..(MaxTime + MaxCooldown)

\* ---- properties ----

\* C1: on a breaker that has recorded no success, allow() is true while the
\* streak is below failure_threshold; once the streak equals failure_threshold,
\* the N-th trip having been made at last_failure_time, tripped_until is that
\* time plus cooldown_seconds and allow() is false at every clock value up to
\* it and true at every later one.
C1_OpensAtThresholdUntilCooldown ==
    LET b == circuit_breaker
    IN  b.total_successes = 0 =>
            /\ b.consecutive_failures < b.failure_threshold => allow(b, now)
            /\ b.consecutive_failures = b.failure_threshold =>
                   /\ b.tripped_until = b.last_failure_time + b.cooldown_seconds
                   /\ allow(b, now) <=> now > b.last_failure_time + b.cooldown_seconds

\* C1 witness: the threshold was reached, the cooldown ran out while only
\* the clock moved, and allow() answers true again.
C1_Witness ==
    /\ circuit_breaker.total_successes = 0
    /\ circuit_breaker.consecutive_failures = circuit_breaker.failure_threshold
    /\ circuit_breaker.tripped_until > 0
    /\ lastOp = "tick"
    /\ was_open
    /\ allow(circuit_breaker, now)

\* C2 as stated: a trip() on a breaker whose cooldown has elapsed with no
\* success since it opened leaves the streak at 1 and the breaker closed
\* (failure_threshold > 1).
C2_FreshStreakAfterCooldown ==
    [][(/\ lastOp' = "trip"
        /\ allow(circuit_breaker, now)
        /\ circuit_breaker.consecutive_failures >= circuit_breaker.failure_threshold
        /\ circuit_breaker.failure_threshold > 1)
       => (/\ circuit_breaker'.consecutive_failures = 1
           /\ allow(circuit_breaker', now'))]_vars

\* C2 amended: such a trip() continues the old streak (it grows by one, past
\* the threshold) and reopens the breaker at once, until now + cooldown_seconds.
C2_StreakContinuesAfterCooldown ==
    [][(/\ lastOp' = "trip"
        /\ allow(circuit_breaker, now)
        /\ circuit_breaker.consecutive_failures >= circuit_breaker.failure_threshold
        /\ circuit_breaker.failure_threshold > 1)
       => (/\ circuit_breaker'.consecutive_failures = circuit_breaker.consecutive_failures + 1
           /\ circuit_breaker'.tripped_until = now' + circuit_breaker.cooldown_seconds
           /\ ~allow(circuit_breaker', now'))]_vars

\* C2 witness: a trip() made while the breaker was closed took the streak
\* past the threshold, so the breaker had opened and its cooldown had elapsed.
C2_Witness ==
    /\ lastOp = "trip"
    /\ ~was_open
    /\ circuit_breaker.failure_threshold > 1
    /\ circuit_breaker.consecutive_failures > circuit_breaker.failure_threshold
    /\ ~allow(circuit_breaker, now)

\* C3: record_success() called while the breaker is open leaves allow() true,
\* tripped_until 0, the streak 0 and total_successes one higher.
C3_EarlyClose ==
    [][(lastOp' = "record_success" /\ ~allow(circuit_breaker, now))
       => (/\ allow(circuit_breaker', now')
           /\ circuit_breaker'.tripped_until = 0
           /\ circuit_breaker'.consecutive_failures = 0
           /\ circuit_breaker'.total_successes = circuit_breaker.total_successes + 1)]_vars

\* C3 witness: record_success() ran on an open breaker before the clock moved.
C3_Witness ==
    /\ lastOp = "record_success"
    /\ was_open
    /\ "reset" \in calls
    /\ now = circuit_breaker.last_failure_time

\* C4: record_success() called while the breaker is closed leaves
\* tripped_until and total_failures alone, zeroes the streak, adds one to
\* total_successes, leaves the breaker closed and prints no reset line.
C4_SuccessWhileClosed ==
    [][(lastOp' = "record_success" /\ allow(circuit_breaker, now))
       => (/\ circuit_breaker'.tripped_until = circuit_breaker.tripped_until
           /\ circuit_breaker'.total_failures = circuit_breaker.total_failures
           /\ circuit_breaker'.consecutive_failures = 0
           /\ circuit_breaker'.total_successes = circuit_breaker.total_successes + 1
           /\ allow(circuit_breaker', now')
           /\ "reset" \notin notified'
           /\ "reset" \notin calls')]_vars

\* C4 witness: record_success() ran on a closed breaker that still stores
\* the deadline of an elapsed cooldown.
C4_Witness ==
    /\ lastOp = "record_success"
    /\ ~was_open
    /\ circuit_breaker.tripped_until > 0
    /\ circuit_breaker.consecutive_failures = 0

\* C5: hunt_prime called while the breaker is open returns False and leaves
\* attempts, primes_found and every breaker field alone; no number is tested
\* and neither trip() nor record_success() runs.
C5_BlockedHuntIsFree ==
    [][(lastOp' = "hunt_prime" /\ ~allow(circuit_breaker, now))
       => (/\ ret' = "False"
           /\ attempts' = attempts
           /\ primes_found' = primes_found
           /\ circuit_breaker' = circuit_breaker
           /\ calls' = {}
           /\ "attempt" \notin notified')]_vars

\* C5 witness: hunt_prime was refused by an open breaker after earlier attempts.
C5_Witness ==
    /\ lastOp = "hunt_prime"
    /\ was_open
    /\ notified = {"blocked"}
    /\ attempts > 0

\* C6: allow() returns True iff the clock is strictly past tripped_until, and
\* changes no field of the breaker or the hunter.
C6_AllowStrictAndPure ==
    [][lastOp' = "allow"
       => (/\ ret' = PyBool(now > circuit_breaker.tripped_until)
           /\ circuit_breaker' = circuit_breaker
           /\ UNCHANGED <<now, min_num, max_num, primes_found, attempts>>)]_vars

\* C6 witness: allow() was asked at the very instant tripped_until and said False.
C6_Witness ==
    /\ lastOp = "allow"
    /\ now = circuit_breaker.tripped_until
    /\ ret = "False"

\* C7: tripped_until changes only when trip() replaces it by now +
\* cooldown_seconds, never below its previous value, or when reset() sets it
\* to 0; allow(), get_stats() and record_success() on a closed breaker leave it.
C7_TrippedUntilChanges ==
    [][/\ (circuit_breaker'.tripped_until # circuit_breaker.tripped_until)
          => \/ /\ "trip" \in calls'
                /\ circuit_breaker'.tripped_until = now + circuit_breaker.cooldown_seconds
                /\ circuit_breaker'.tripped_until >= circuit_breaker.tripped_until
             \/ /\ "reset" \in calls'
                /\ circuit_breaker'.tripped_until = 0
       /\ (\/ lastOp' \in {"allow", "get_stats"}
           \/ lastOp' = "record_success" /\ allow(circuit_breaker, now))
          => circuit_breaker'.tripped_until = circuit_breaker.tripped_until]_vars

\* C7 witness: reset() ran on an open breaker and cleared tripped_until.
C7_Witness ==
    /\ lastOp = "reset"
    /\ was_open
    /\ "reset" \in notified
    /\ circuit_breaker.tripped_until = 0
    /\ circuit_breaker.total_failures >= circuit_breaker.failure_threshold

\* C8: a trip() made at clock value now while the breaker is open leaves it
\* open and sets tripped_until to now + cooldown_seconds, which is never
\* below the previous tripped_until.
C8_RetripExtends ==
    [][("trip" \in calls' /\ ~allow(circuit_breaker, now))
       => (/\ ~allow(circuit_breaker', now')
           /\ circuit_breaker'.tripped_until = now' + circuit_breaker.cooldown_seconds
           /\ circuit_breaker'.tripped_until >= circuit_breaker.tripped_until)]_vars

\* C8 witness: trip() ran on an open breaker and the streak is past the threshold.
C8_Witness ==
    /\ lastOp = "trip"
    /\ was_open
    /\ ~allow(circuit_breaker, now)
    /\ circuit_breaker.consecutive_failures > circuit_breaker.failure_threshold
    /\ circuit_breaker.tripped_until = now + circuit_breaker.cooldown_seconds

\* C9: 0 <= consecutive_failures <= total_failures in every state, and
\* total_failures and total_successes never decrease.
C9_CountersOrdered ==
    /\ [](/\ 0 <= circuit_breaker.consecutive_failures
          /\ circuit_breaker.consecutive_failures <= circuit_breaker.total_failures)
    /\ [][/\ circuit_breaker'.total_failures >= circuit_breaker.total_failures
          /\ circuit_breaker'.total_successes >= circuit_breaker.total_successes]_vars

\* C9 witness: a success sits between two failures, so the streak is
\* positive and below the lifetime count.
C9_Witness ==
    /\ circuit_breaker.consecutive_failures > 0
    /\ circuit_breaker.consecutive_failures < circuit_breaker.total_failures
    /\ circuit_breaker.total_successes > 0

\* n is a prime number: at least 2 and without a divisor strictly between 1 and n
IsPrimeNumber(n) == n >= 2 /\ \A d \in 2..(n - 1) : n % d # 0

\* every number hunt_prime can draw is a prime number
AllPrimeRange == \A n \in min_num..max_num : IsPrimeNumber(n)

\* C10: when every number the hunter can draw is prime, the breaker is never
\* open, the streak and total_failures stay 0, and every hunt_prime call
\* returns True and makes primes_found one longer.
C10_AllPrimeNeverTrips ==
    [][AllPrimeRange
       => (/\ circuit_breaker'.total_failures = 0
           /\ circuit_breaker'.consecutive_failures = 0
           /\ allow(circuit_breaker', now')
           /\ lastOp' = "hunt_prime"
              => /\ ret' = "True"
                 /\ Len(primes_found') = Len(primes_found) + 1)]_vars

\* C10 witness: the range is the single prime 5 and several hunts have succeeded.
C10_Witness ==
    /\ min_num = 5 /\ max_num = 5
    /\ lastOp = "hunt_prime"
    /\ ret = "True"
    /\ Len(primes_found) >= 2
    /\ Len(primes_found) = attempts

\* C11: get_stats().success_rate is total_successes * 100 / max(1,
\* total_successes + total_failures): 0 before any operation, 100 after one
\* success and no failure, 50 after one success and one failure, and always
\* between 0 and 100.  The rate num / den is compared by cross-multiplication.
C11_SuccessRate ==
    LET b == circuit_breaker
        r == get_stats(b, now).success_rate
        total == b.total_successes + b.total_failures
    IN  /\ r.den > 0
        /\ r.num * Max(1, total) = b.total_successes * 100 * r.den
        /\ 0 <= r.num /\ r.num <= 100 * r.den
        /\ total = 0 => r.num = 0
        /\ (b.total_successes = 1 /\ b.total_failures = 0) => r.num = 100 * r.den
        /\ (b.total_successes = 1 /\ b.total_failures = 1) => r.num = 50 * r.den

\* C11 witness: one success and one failure were recorded and the rate is 50.
C11_Witness ==
    /\ circuit_breaker.total_successes = 1
    /\ circuit_breaker.total_failures = 1
    /\ get_stats(circuit_breaker, now).success_rate.num
           = 50 * get_stats(circuit_breaker, now).success_rate.den

\* C12: get_stats() changes no field, and at every clock value is_open is
\* not allow(); on an open breaker next_retry_time is tripped_until and
\* seconds_until_retry is max(0, tripped_until - now), at most
\* cooldown_seconds; on a closed one next_retry_time is None and
\* seconds_until_retry is 0, whatever tripped_until still holds.
C12_StatsSnapshot ==
    /\ [](LET b == circuit_breaker
              st == get_stats(b, now)
          IN  /\ st.is_open = ~allow(b, now)
              /\ st.is_open =>
                     /\ st.next_retry_time = b.tripped_until
                     /\ st.seconds_until_retry = Max(0, b.tripped_until - now)
                     /\ st.seconds_until_retry <= b.cooldown_seconds
              /\ ~st.is_open =>
                     /\ st.next_retry_time = None
                     /\ st.seconds_until_retry = 0)
    /\ [][lastOp' = "get_stats"
          => /\ circuit_breaker' = circuit_breaker
             /\ UNCHANGED <<now, min_num, max_num, primes_found, attempts>>]_vars

\* C12 witness: get_stats() ran on a closed breaker that still stores the
\* deadline of an elapsed cooldown.
C12_Witness ==
    /\ lastOp = "get_stats"
    /\ ~was_open
    /\ circuit_breaker.tripped_until > 0
    /\ get_stats(circuit_breaker, now).next_retry_time = None

\* C13: once a KeyboardInterrupt has been raised inside the loop of main(),
\* the loop is never entered again and the final summary is eventually printed.
C13_InterruptThenSummary ==
    /\ (pc = "except") ~> (pc = "done" /\ "summary" \in notified)
    /\ [][(pc \in {"except", "finally", "done"}) => (pc' \notin LoopPcs)]_vars

\* C13 witness: the summary was printed while the breaker was still open, so
\* the interrupt arrived during the cooldown.
C13_Witness ==
    /\ pc = "done"
    /\ "summary" \in notified
    /\ was_open
    /\ attempts > 0

\* the constructor arguments the specification accepts
ValidConfig ==
    /\ circuit_breaker.failure_threshold >= 1
    /\ circuit_breaker.cooldown_seconds >= 1
    /\ min_num <= max_num

\* C14: a breaker or hunter on which a method has run was built with a
\* positive threshold, a positive cooldown and min_num <= max_num, the other
\* constructions having been refused.
C14_InvalidConfigRefused ==
    lastOp \in {"allow", "trip", "reset", "record_success", "get_stats", "hunt_prime"}
        => ValidConfig

\* C15: for every integer n from -MaxNeg to MaxN, is_prime(n) is True iff
\* n >= 2 and no d with 1 < d < n divides n; it is False below 2, True for 2,
\* False for every even n > 2, False for 4, 6, 8, 9, 10 and True for 11.
C15_IsPrimeCorrect ==
    lastOp = "is_prime" =>
        /\ (ret = "True") <=> IsPrimeNumber(arg)
        /\ ret \in {"True", "False"}
        /\ arg < 2 => ret = "False"
        /\ arg = 2 => ret = "True"
        /\ (arg > 2 /\ arg % 2 = 0) => ret = "False"
        /\ arg \in {4, 6, 8, 9, 10} => ret = "False"
        /\ arg = 11 => ret = "True"

\* C15 witness: is_prime answered False for 49, whose only proper divisor
\* is its square root.
C15_Witness ==
    /\ lastOp = "is_prime"
    /\ arg = 49
    /\ ret = "False"

\* C16: reset(), called directly or from record_success(), leaves
\* tripped_until 0, the streak 0, total_successes one higher and
\* total_failures unchanged, and prints its line iff the breaker was open
\* when it was called.
C16_ResetEffect ==
    [][("reset" \in calls')
       => (/\ circuit_breaker'.tripped_until = 0
           /\ circuit_breaker'.consecutive_failures = 0
           /\ circuit_breaker'.total_successes = circuit_breaker.total_successes + 1
           /\ circuit_breaker'.total_failures = circuit_breaker.total_failures
           /\ ("reset" \in notified') <=> ~allow(circuit_breaker, now))]_vars

\* C16 witness: reset() ran silently on a breaker that had opened and whose
\* cooldown had elapsed.
C16_Witness ==
    /\ lastOp = "reset"
    /\ ~was_open
    /\ notified = {}
    /\ circuit_breaker.tripped_until = 0
    /\ circuit_breaker.total_failures >= circuit_breaker.failure_threshold

\* C17: when the breaker is touched only through hunt_prime, after any
\* sequence of hunt_prime calls on any hunter attempts is total_successes +
\* total_failures and primes_found has total_successes elements.
C17_HunterCounters ==
    /\ attempts = circuit_breaker.total_successes + circuit_breaker.total_failures
    /\ Len(primes_found) = circuit_breaker.total_successes

\* C18: an open breaker has a streak of at least failure_threshold.
C18_OpenImpliesStreak ==
    ~allow(circuit_breaker, now)
        => circuit_breaker.consecutive_failures >= circuit_breaker.failure_threshold

\* C18 witness: the breaker is open on a streak that began after a success.
C18_Witness ==
    /\ ~allow(circuit_breaker, now)
    /\ circuit_breaker.total_successes > 0
    /\ circuit_breaker.consecutive_failures = circuit_breaker.failure_threshold
    /\ circuit_breaker.total_failures > circuit_breaker.consecutive_failures

\* C19: when the breaker is driven only through hunt_prime, trip() and
\* record_success() run only on a closed breaker, reset() never runs and
\* its line is never printed.
C19_NoMutationWhileOpen ==
    [][(calls' # {})
       => (/\ allow(circuit_breaker, now)
           /\ "reset" \notin calls'
           /\ "reset" \notin notified')]_vars

\* C19 witness: hunt_prime recorded a success on a closed breaker that still
\* stores the deadline of an elapsed cooldown.
C19_Witness ==
    /\ lastOp = "hunt_prime"
    /\ "record_success" \in calls
    /\ ~was_open
    /\ circuit_breaker.tripped_until > 0

\* C20: with record_success() on one breaker wherever the other gets
\* reset(), the two return equal get_stats() snapshots and equal allow()
\* answers after every step, whatever their stored tripped_until.
C20_RecordSuccessLikeReset ==
    /\ get_stats(circuit_breaker, now) = get_stats(twin, now)
    /\ allow(circuit_breaker, now) = allow(twin, now)

\* C20 witness: after a success on closed breakers one still stores the old
\* deadline and the other stores 0.
C20_Witness ==
    /\ lastOp = "record_success"
    /\ circuit_breaker.tripped_until > 0
    /\ twin.tripped_until = 0
    /\ circuit_breaker.total_successes > 0

====
